---- MODULE Spec2Model ----
(***************************************************************************)
(* atuio: chord resolver (src/binds.rs) and editing session state machine  *)
(* (src/tui.rs) with the built-in bindings of src/config.rs.               *)
(*                                                                         *)
(* Durations are whole milliseconds.  A Rust Duration is unsigned: `-`     *)
(* panics below zero, saturating_sub stops at zero.  The gain amount (f32) *)
(* is counted in tenths.  Option<T> is a sequence of length 0 (None) or 1  *)
(* (Some).                                                                 *)
(***************************************************************************)
EXTENDS Integers, Sequences, FiniteSets, TLC

\* ---------------------------------------------------------------- bounds
\* number of samples of the longest decoded file
MaxSamples == 3
\* ZoomOut is followed only while window_end stays within this many ms
MaxWindowEnd == 20
\* EffectLeft / EffectRight are followed only this many steps away from 1.0
MaxGainSteps == 1
\* the example session is followed while the cursor is within this many ms
MaxScenarioCursor == 40
\* and while Cut has removed at most this many ms from its buffer
MaxScenarioCut == 40

\* ------------------------------------------------------------- arithmetic
Min(a, b) == IF a <= b THEN a ELSE b
Max(a, b) == IF a >= b THEN a ELSE b

\* Duration::saturating_sub
SatSub(a, b) == IF a >= b THEN a - b ELSE 0

\* variant: the upper bound is not applied
ClampBelowOnly(x, lo, hi) == IF x < lo THEN lo ELSE x

\* Ord::clamp
Clamp(x, lo, hi) == IF x < lo THEN lo ELSE IF x > hi THEN hi ELSE x

\* u128::ilog10 for n >= 1 (it panics on 0; callers test for that)
RECURSIVE ILog10(_)
ILog10(n) == IF n < 10 THEN 0 ELSE 1 + ILog10(n \div 10)

\* 10u64.pow
RECURSIVE Pow10(_)
Pow10(e) == IF e = 0 THEN 1 ELSE 10 * Pow10(e - 1)

None == << >>
Some(x) == << x >>

\* ------------------------------------------------------------------ binds
Leaf(actions) == [kind |-> "Action", actions |-> actions]
Chain(m) == [kind |-> "Chain", map |-> m]

\* Config::default.  Chords are written in crossterm's normalised form:
\* "S" is shift+s, "Z" is the upper-case character.
DefaultBinds ==
    ("S" :> Leaf(<<"Save">>)) @@
    ("q" :> Leaf(<<"Quit">>)) @@
    ("h" :> Leaf(<<"CursorLeft">>)) @@
    ("l" :> Leaf(<<"CursorRight">>)) @@
    (" " :> Leaf(<<"Play">>)) @@
    ("z" :> Leaf(<<"ZoomIn">>)) @@
    ("Z" :> Leaf(<<"ZoomOut">>)) @@
    ("v" :> Leaf(<<"Select">>)) @@
    ("g" :> Chain(("s" :> Leaf(<<"CursorStart">>)) @@
                  ("l" :> Leaf(<<"CursorEnd">>))))

\* A configuration file as Config::read accepts it: the built-in bindings,
\* the keys the tests of tui.rs type for the editing actions, a list of two
\* actions under one chord and a chain below a chain.
UserBinds ==
    ("%" :> Leaf(<<"SelectAll">>)) @@
    ("a" :> Leaf(<<"Amplify">>)) @@
    ("x" :> Leaf(<<"Cut">>)) @@
    ("i" :> Leaf(<<"EffectRight">>)) @@
    ("d" :> Leaf(<<"EffectLeft">>)) @@
    ("g" :> Chain(("s" :> Leaf(<<"CursorStart">>)) @@
                  ("l" :> Leaf(<<"CursorEnd">>)) @@
                  ("g" :> Chain(("a" :> Leaf(<<"SelectAll", "Amplify">>)))))) @@
    DefaultBinds

Configs == {DefaultBinds, UserBinds}

\* the chords the tests of tui.rs and binds.rs drive handle_key_event with:
\* every bound chord but Play, and an unbound one
Chords == {"S", "q", "h", "l", "z", "Z", "v", "g", "s",
           "%", "a", "x", "i", "d", "?"}

\* the chords typed while auditioning: Play, cursor motions, the chain,
\* Select, Cut, Quit and an unbound one
PlayChords == {" ", "h", "l", "g", "v", "x", "q", "?"}

\* variant: the Action arm returns without self.keys.clear()
RECURSIVE WalkKeepsOnLeaf(_, _, _)
WalkKeepsOnLeaf(bound, ks, i) ==
    IF i > Len(ks) THEN [keys |-> ks, ret |-> None]
    ELSE IF ks[i] \notin DOMAIN bound THEN [keys |-> << >>, ret |-> None]
    ELSE IF bound[ks[i]].kind = "Action"
         THEN [keys |-> ks, ret |-> Some(bound[ks[i]].actions)]
    ELSE WalkKeepsOnLeaf(bound[ks[i]].map, ks, i + 1)

\* variant: the None arm returns without self.keys.clear()
RECURSIVE WalkKeepsOnUnbound(_, _, _)
WalkKeepsOnUnbound(bound, ks, i) ==
    IF i > Len(ks) THEN [keys |-> ks, ret |-> None]
    ELSE IF ks[i] \notin DOMAIN bound THEN [keys |-> ks, ret |-> None]
    ELSE IF bound[ks[i]].kind = "Action"
         THEN [keys |-> << >>, ret |-> Some(bound[ks[i]].actions)]
    ELSE WalkKeepsOnUnbound(bound[ks[i]].map, ks, i + 1)

\* the loop of Binds::apply over self.keys, from position i at node bound
RECURSIVE Walk(_, _, _)
Walk(bound, ks, i) ==
    IF i > Len(ks) THEN [keys |-> ks, ret |-> None]
    ELSE IF ks[i] \notin DOMAIN bound THEN [keys |-> << >>, ret |-> None]
    ELSE IF bound[ks[i]].kind = "Action"
         THEN [keys |-> << >>, ret |-> Some(bound[ks[i]].actions)]
    ELSE Walk(bound[ks[i]].map, ks, i + 1)

\* variant: a chord that diverts a pending chain is looked up again from
\* the root
BindsApplyRetries(m, ks, key) ==
    LET r == Walk(m, Append(ks, key), 1)
    IN IF ks # << >> /\ r.ret = None /\ r.keys = << >>
       THEN Walk(m, <<key>>, 1)
       ELSE r

\* Binds::apply: push the chord, then walk the tree from its root
BindsApply(m, ks, key) == Walk(m, Append(ks, key), 1)

\* ----------------------------------------------------------------- buffer
\* SamplesBuffer: channels, sample rate and the samples in order
TotalDuration(src) ==
    (Len(src.data) * 1000) \div (src.sample_rate * src.channels)

\* number of samples that make up duration d (ms) of src
SamplesIn(src, d) == (d * src.sample_rate * src.channels) \div 1000

\* variant: the sample that ends at d is dropped as well
TakeDurationShort(src, d) ==
    SubSeq(src.data, 1, Min(SamplesIn(src, d), Len(src.data)) - 1)

\* Source::take_duration, collected
TakeDuration(src, d) ==
    SubSeq(src.data, 1, Min(SamplesIn(src, d), Len(src.data)))

\* Source::skip_duration, collected
SkipDuration(src, d) ==
    SubSeq(src.data, Min(SamplesIn(src, d), Len(src.data)) + 1, Len(src.data))

\* ---------------------------------------------------------------- session
SelectionNew(start) == [start |-> start, end |-> start]

\* variant: the endpoints are returned as they are stored
NormalizeUnordered(sel) == <<sel.start, sel.end>>

\* Selection::normalize
Normalize(sel) == <<Min(sel.start, sel.end), Max(sel.start, sel.end)>>

Normal == [kind |-> "Normal"]
Select(sel) == [kind |-> "Select", selection |-> sel]
Effect(sel, amount) == [kind |-> "Effect", selection |-> sel, amount |-> amount]

\* variant: the gain is kept between 0.0 and 2.0
IncreaseClamped(mode, delta) ==
    [mode EXCEPT !.amount = Clamp(@ + delta, 0, 20)]

\* Effect::increase
Increase(mode, delta) == [mode EXCEPT !.amount = @ + delta]

VARIABLES
    map,            \* binds.map: the binding tree, fixed at construction
    keys,           \* binds.keys: the pending chords
    walked,         \* how many chords the last Binds::apply walked over
    ret,            \* what the last Binds::apply returned
    anchor,         \* Some(a) while in the Select mode that Action::Select
                    \* entered at cursor a, None otherwise
    started,        \* Some(c) while the playback that Action::Play started
                    \* at cursor c is flagged as playing, None otherwise
    exit, source, cursor, playhead, window_start, window_end, playing, mode,
    sink,           \* the audio sink: queued duration and elapsed position
    panicked        \* the process aborted on a panic

vars == <<map, keys, walked, ret, anchor, started, exit, source, cursor, playhead, window_start,
          window_end, playing, mode, sink, panicked>>

\* the fields of struct App other than binds
App == [exit |-> exit, source |-> source, cursor |-> cursor,
        playhead |-> playhead, window_start |-> window_start, window_end |-> window_end,
        playing |-> playing, mode |-> mode, sink |-> sink,
        panicked |-> panicked]

SinkEmpty == [len |-> 0, pos |-> 0]

\* variant: the window grows to reach the cursor instead of sliding
MoveCursorToStretch(st, pos) ==
    LET c == Clamp(pos, 0, TotalDuration(st.source))
    IN [st EXCEPT !.cursor = c,
                  !.window_start = Min(c, st.window_start),
                  !.window_end = Max(c, st.window_end),
                  !.mode = IF st.mode.kind = "Select"
                           THEN [st.mode EXCEPT !.selection.start = c]
                           ELSE st.mode]

\* variant: a selection does not follow the cursor
MoveCursorToKeepsSelection(st, pos) ==
    LET c == Clamp(pos, 0, TotalDuration(st.source))
        ws1 == IF c < st.window_start THEN c ELSE st.window_start
        we1 == IF c < st.window_start
               THEN st.window_end - (st.window_start - c) ELSE st.window_end
        ws2 == IF c > we1 THEN ws1 + (c - we1) ELSE ws1
        we2 == IF c > we1 THEN c ELSE we1
    IN [st EXCEPT !.cursor = c, !.window_start = ws2, !.window_end = we2]

\* App::move_cursor_to
MoveCursorTo(st, pos) ==
    LET c == Clamp(pos, 0, TotalDuration(st.source))
        ws1 == IF c < st.window_start THEN c ELSE st.window_start
        we1 == IF c < st.window_start
               THEN st.window_end - (st.window_start - c) ELSE st.window_end
        ws2 == IF c > we1 THEN ws1 + (c - we1) ELSE ws1
        we2 == IF c > we1 THEN c ELSE we1
    IN [st EXCEPT !.cursor = c, !.window_start = ws2, !.window_end = we2,
                  !.mode = IF st.mode.kind = "Select"
                           THEN [st.mode EXCEPT !.selection.start = c]
                           ELSE st.mode]

ActPlay(st) ==
    IF st.playing
    THEN [st EXCEPT !.sink = SinkEmpty, !.playing = FALSE]
    ELSE [st EXCEPT !.sink = [len |-> SatSub(TotalDuration(st.source), st.cursor),
                              pos |-> 0],
                    !.playing = TRUE]

\* variant: the step is taken from the window length itself
ActZoomInFromLength(st) ==
    LET len_millis == st.window_end - st.window_start
        zoom_amount == Pow10(ILog10(len_millis))
        we == SatSub(st.window_end, zoom_amount)
    IN IF len_millis = 0 THEN [st EXCEPT !.panicked = TRUE]
       ELSE [st EXCEPT !.window_end = IF we = 0 THEN 1 ELSE we]

\* App::apply_action (Action::ZoomIn)
ActZoomIn(st) ==
    LET len_millis == SatSub(st.window_end - st.window_start, 1)
        zoom_amount == Pow10(ILog10(len_millis))
        we == SatSub(st.window_end, zoom_amount)
    IN IF len_millis = 0 THEN [st EXCEPT !.panicked = TRUE]
       ELSE [st EXCEPT !.window_end = IF we = 0 THEN 1 ELSE we]

ActZoomOut(st) ==
    LET len_millis == st.window_end - st.window_start
        zoom_amount == Pow10(ILog10(len_millis))
    IN IF len_millis = 0 THEN [st EXCEPT !.panicked = TRUE]
       ELSE [st EXCEPT !.window_end = @ + zoom_amount]

\* variant: Select leaves Effect mode as it leaves Select mode
ActSelectLeavesEffect(st) ==
    CASE st.mode.kind = "Select" -> [st EXCEPT !.mode = Normal]
      [] st.mode.kind = "Normal" ->
            [st EXCEPT !.mode = Select(SelectionNew(st.cursor))]
      [] st.mode.kind = "Effect" -> [st EXCEPT !.mode = Normal]

ActSelect(st) ==
    CASE st.mode.kind = "Select" -> [st EXCEPT !.mode = Normal]
      [] st.mode.kind = "Normal" ->
            [st EXCEPT !.mode = Select(SelectionNew(st.cursor))]
      [] st.mode.kind = "Effect" -> st

\* variant: the guard tests the ordered endpoints
ActSelectAllOrdered(st) ==
    IF /\ st.mode.kind = "Select"
       /\ Normalize(st.mode.selection)[1] = 0
       /\ Normalize(st.mode.selection)[2] >= TotalDuration(st.source)
    THEN [st EXCEPT !.mode = Normal]
    ELSE LET end == TotalDuration(st.source)
         IN [MoveCursorTo(st, end) EXCEPT
                !.mode = Select([start |-> 0, end |-> end])]

ActSelectAll(st) ==
    IF /\ st.mode.kind = "Select"
       /\ st.mode.selection.start = 0
       /\ st.mode.selection.end >= TotalDuration(st.source)
    THEN [st EXCEPT !.mode = Normal]
    ELSE LET end == TotalDuration(st.source)
         IN [MoveCursorTo(st, end) EXCEPT
                !.mode = Select([start |-> 0, end |-> end])]

\* variant: the Effect takes the normalized selection
ActAmplifyNormalizes(st) ==
    CASE st.mode.kind = "Select" ->
            [st EXCEPT !.mode =
                Effect([start |-> Normalize(st.mode.selection)[1],
                        end |-> Normalize(st.mode.selection)[2]], 10)]
      [] st.mode.kind = "Normal" -> st
      [] st.mode.kind = "Effect" -> st

\* variant: without a selection the Effect covers the cursor position
ActAmplifyAnywhere(st) ==
    CASE st.mode.kind = "Select" ->
            [st EXCEPT !.mode = Effect(st.mode.selection, 10)]
      [] st.mode.kind = "Normal" ->
            [st EXCEPT !.mode = Effect(SelectionNew(st.cursor), 10)]
      [] st.mode.kind = "Effect" -> st

ActAmplify(st) ==
    CASE st.mode.kind = "Select" ->
            [st EXCEPT !.mode = Effect(st.mode.selection, 10)]
      [] st.mode.kind = "Normal" -> st
      [] st.mode.kind = "Effect" -> st

\* variant: Cut splices in Effect mode as it does in Select mode
ActCutFromEffect(st) ==
    CASE st.mode.kind \in {"Select", "Effect"} ->
            LET start == Normalize(st.mode.selection)[1]
                end == Normalize(st.mode.selection)[2]
                new == TakeDuration(st.source, start)
                          \o SkipDuration(st.source, end)
            IN MoveCursorTo([st EXCEPT !.source.data = new, !.mode = Normal],
                            start)
      [] st.mode.kind = "Normal" -> st

\* variant: Cut leaves the selection in place
ActCutKeepsMode(st) ==
    CASE st.mode.kind = "Select" ->
            LET start == Normalize(st.mode.selection)[1]
                end == Normalize(st.mode.selection)[2]
                new == TakeDuration(st.source, start)
                          \o SkipDuration(st.source, end)
            IN MoveCursorTo([st EXCEPT !.source.data = new], start)
      [] st.mode.kind = "Normal" -> st
      [] st.mode.kind = "Effect" -> st

\* App::apply_action (Action::Cut)
ActCut(st) ==
    CASE st.mode.kind = "Select" ->
            LET start == Normalize(st.mode.selection)[1]
                end == Normalize(st.mode.selection)[2]
                new == TakeDuration(st.source, start)
                          \o SkipDuration(st.source, end)
            IN MoveCursorTo([st EXCEPT !.source.data = new, !.mode = Normal],
                            start)
      [] st.mode.kind = "Normal" -> st
      [] st.mode.kind = "Effect" -> st

\* variant: the gain is written into the stored samples
ActEffectInPlace(st, delta) ==
    IF st.mode.kind = "Effect"
    THEN [st EXCEPT !.mode = Increase(st.mode, delta),
                    !.source.data = [i \in 1..Len(st.source.data) |->
                                        st.source.data[i] * (10 + delta)]]
    ELSE st

\* App::apply_action (Action::EffectLeft, Action::EffectRight)
ActEffect(st, delta) ==
    IF st.mode.kind = "Effect"
    THEN [st EXCEPT !.mode = Increase(st.mode, delta)]
    ELSE st

\* App::apply_action
ApplyAction(st, action) ==
    CASE action = "Quit" -> [st EXCEPT !.exit = TRUE]
      [] action = "Save" -> st
      [] action = "CursorLeft" -> MoveCursorTo(st, SatSub(st.cursor, 10))
      [] action = "CursorRight" -> MoveCursorTo(st, st.cursor + 10)
      [] action = "CursorStart" -> MoveCursorTo(st, 0)
      [] action = "CursorEnd" -> MoveCursorTo(st, TotalDuration(st.source))
      [] action = "Play" -> ActPlay(st)
      [] action = "ZoomIn" -> ActZoomIn(st)
      [] action = "ZoomOut" -> ActZoomOut(st)
      [] action = "Select" -> ActSelect(st)
      [] action = "SelectAll" -> ActSelectAll(st)
      [] action = "Amplify" -> ActAmplify(st)
      [] action = "Cut" -> ActCut(st)
      [] action = "EffectLeft" -> ActEffect(st, -1)
      [] action = "EffectRight" -> ActEffect(st, 1)

Actions == {"Quit", "Save", "CursorLeft", "CursorRight", "CursorStart",
            "CursorEnd", "Play", "ZoomIn", "ZoomOut", "Select", "SelectAll",
            "Amplify", "Cut", "EffectLeft", "EffectRight"}

\* the for loop of handle_key_event: the actions in order; a panic ends it
RECURSIVE ApplyAll(_, _, _)
ApplyAll(st, actions, i) ==
    IF i > Len(actions) \/ st.panicked THEN st
    ELSE ApplyAll(ApplyAction(st, actions[i]), actions, i + 1)

\* App::handle_key_event on the session fields
HandleKeyEvent(st, r) == IF r = None THEN st ELSE ApplyAll(st, r[1], 1)

\* variant: an empty sink is not looked at
PollSinkKeepsPlaying(st) ==
    IF st.playing
    THEN [st EXCEPT !.playhead = st.cursor + st.sink.pos]
    ELSE st

\* the head of handle_events: while playing, read the sink once
PollSink(st) ==
    IF st.playing
    THEN [st EXCEPT !.playhead = st.cursor + st.sink.pos,
                    !.playing = ~(st.sink.pos >= st.sink.len)]
    ELSE st

\* ------------------------------------------------------------ transitions
\* the decoded files: 1..MaxSamples mono samples at 200 Hz (5 ms each)
Buffers == {[channels |-> 1, sample_rate |-> 200, data |-> [i \in 1..n |-> i]] :
               n \in 1..MaxSamples}

\* Binds::new and App::new
Init ==
    /\ map \in Configs
    /\ keys = << >>
    /\ walked = 0
    /\ ret = None
    /\ anchor = None
    /\ started = None
    /\ exit = FALSE
    /\ source \in Buffers
    /\ cursor = 0
    /\ playhead = 0
    /\ window_start = 0
    /\ window_end = TotalDuration(source)
    /\ playing = FALSE
    /\ mode = Normal
    /\ sink = SinkEmpty
    /\ panicked = FALSE

\* variant: the loop does not look at the exit flag
RunningAfterQuit == ~panicked

\* App::run loops while !self.exit; a panic aborts the process
Running == ~exit /\ ~panicked

\* the model follows ZoomOut and the gain steps only within the bounds; a
\* window that is wider from the start is followed while it does not grow
WithinBounds(st) ==
    /\ st.window_end <= Max(MaxWindowEnd, window_end)
    /\ st.mode.kind = "Effect" =>
          /\ st.mode.amount >= 10 - MaxGainSteps
          /\ st.mode.amount <= 10 + MaxGainSteps

Store(st) ==
    /\ exit' = st.exit
    /\ source' = st.source
    /\ cursor' = st.cursor
    /\ playhead' = st.playhead
    /\ window_start' = st.window_start
    /\ window_end' = st.window_end
    /\ playing' = st.playing
    /\ mode' = st.mode
    /\ sink' = st.sink
    /\ panicked' = st.panicked

\* the actions that end a selection or begin another one
ModeActions == {"Select", "SelectAll", "Amplify", "Cut"}

\* the cursor position at which the list r of actions, dispatched in session
\* st, entered the Select mode that holds afterwards
Entered(st, r, a) ==
    IF r = Some(<<"Select">>) /\ st.mode.kind = "Normal" THEN Some(st.cursor)
    ELSE IF r = None \/ \A i \in 1..Len(r[1]) : r[1][i] \notin ModeActions
         THEN a
    ELSE None

\* the cursor position at which the playback flagged in session post was
\* started, after the list r of actions took session st to post
Started(st, r, post, c) ==
    IF ~post.playing THEN None
    ELSE IF r = Some(<<"Play">>) /\ ~st.playing THEN Some(st.cursor)
    ELSE c

\* one iteration of App::run in which a key press arrives:
\* handle_events, then handle_key_event
KeyPress(key) ==
    LET r == BindsApply(map, keys, key)
        post == HandleKeyEvent(PollSink(App), r.ret)
    IN /\ Running
       /\ WithinBounds(post)
       /\ keys' = r.keys
       /\ walked' = Len(keys) + 1
       /\ ret' = r.ret
       /\ anchor' = Entered(PollSink(App), r.ret, anchor)
       /\ started' = Started(PollSink(App), r.ret, post, started)
       /\ Store(post)
       /\ UNCHANGED map

\* one iteration of App::run while playing in which event::poll times out
PollTimeout ==
    /\ Running
    /\ playing
    /\ Store(PollSink(App))
    /\ started' = Started(App, None, PollSink(App), started)
    /\ UNCHANGED <<map, keys, walked, ret, anchor>>

\* the audio thread plays the next queued sample
SinkPlay ==
    /\ Running
    /\ sink.pos < sink.len
    /\ sink' = [sink EXCEPT !.pos =
                   Min(@ + 1000 \div (source.sample_rate * source.channels),
                       sink.len)]
    /\ UNCHANGED <<map, keys, walked, ret, anchor, started, exit, source, cursor, playhead,
                   window_start, window_end, playing, mode, panicked>>

\* the editing session, driven key by key
Next == \E key \in Chords : KeyPress(key)

Spec == Init /\ [][Next]_vars

\* the buffer of the example session: 5000 ms of mono samples at 200 Hz
ScenarioBuffer ==
    [channels |-> 1, sample_rate |-> 200, data |-> [i \in 1..1000 |-> i]]

\* the keys of the example session
ScenarioChords == {"l", "h", "v", "a", "x"}

\* Binds::new and App::new on the 5000 ms file
InitScenario ==
    /\ map \in Configs
    /\ keys = << >>
    /\ walked = 0
    /\ ret = None
    /\ anchor = None
    /\ started = None
    /\ exit = FALSE
    /\ source = ScenarioBuffer
    /\ cursor = 0
    /\ playhead = 0
    /\ window_start = 0
    /\ window_end = TotalDuration(source)
    /\ playing = FALSE
    /\ mode = Normal
    /\ sink = SinkEmpty
    /\ panicked = FALSE

\* the example session, key by key, near the start of the buffer
NextScenario ==
    \E key \in ScenarioChords :
       /\ KeyPress(key)
       /\ cursor' <= MaxScenarioCursor
       /\ TotalDuration(source') >=
             TotalDuration(ScenarioBuffer) - MaxScenarioCut

SpecScenario == InitScenario /\ [][NextScenario]_vars

\* the session with playback: the loop also runs without key input
NextPlay ==
    \/ \E key \in PlayChords : KeyPress(key)
    \/ PollTimeout
    \/ SinkPlay

SpecPlay == Init /\ [][NextPlay]_vars

\* the session with playback in which key presses do not arrive within every
\* 50 ms for ever: while playing, event::poll eventually times out
SpecPlayFair == SpecPlay /\ WF_vars(PollTimeout)

\* ----------------------------------------------------------- the resolver
AllChords == Chords \cup PlayChords

\* the node of the binding tree m at the end of path p; the root is a Chain,
\* a path that leaves the tree or runs on below a leaf reaches nothing
RECURSIVE Lookup(_, _)
Lookup(m, p) ==
    IF p = << >> THEN [kind |-> "Chain", map |-> m]
    ELSE IF Head(p) \notin DOMAIN m THEN [kind |-> "Nothing"]
    ELSE IF Len(p) = 1 THEN m[Head(p)]
    ELSE IF m[Head(p)].kind = "Chain" THEN Lookup(m[Head(p)].map, Tail(p))
    ELSE [kind |-> "Nothing"]

\* the chord sequences that run through Chain entries to an Action leaf
RECURSIVE LeafPaths(_)
LeafPaths(m) ==
    UNION {IF m[k].kind = "Action" THEN {<<k>>}
           ELSE {<<k>> \o q : q \in LeafPaths(m[k].map)} : k \in DOMAIN m}

\* what Binds::apply returns and leaves pending, chord by chord of p
RECURSIVE Typing(_, _, _)
Typing(m, ks, p) ==
    IF p = << >> THEN << >>
    ELSE LET r == BindsApply(m, ks, Head(p))
         IN <<r>> \o Typing(m, r.keys, Tail(p))

\* C1: from an empty pending buffer, typing a path to an Action leaf returns
\* None on every chord but the last, the leaf's action list on the last,
\* leaves the buffer empty, and does the same when typed again; a call that
\* returned a list has left the buffer empty.
C1_LeafOnce ==
    /\ ret # None => keys = << >>
    /\ keys = << >> =>
          \A p \in LeafPaths(map) :
             LET n == Len(p)
                 rs == Typing(map, keys, p \o p)
             IN \A i \in 1..(2 * n) :
                   IF i = n \/ i = 2 * n
                   THEN /\ rs[i].ret = <<Lookup(map, p).actions>>
                        /\ rs[i].keys = << >>
                   ELSE /\ rs[i].ret = << >>
                        /\ rs[i].keys # << >>

\* a leaf below a chain of two chords has just been reached
C1_Witness ==
    /\ ret = <<(<<"SelectAll", "Amplify">>)>>
    /\ walked = 3
    /\ keys = << >>

\* C2: the pending buffer is empty or a path through Chain nodes only, and
\* a chord that extends the pending chords to such a path returns None and
\* is kept pending behind them.
C2_PendingIsChainPath ==
    /\ Lookup(map, keys).kind = "Chain"
    /\ keys # << >> => (ret = << >> /\ walked = Len(keys))
    /\ \A key \in AllChords :
          Lookup(map, Append(keys, key)).kind = "Chain" =>
             LET r == BindsApply(map, keys, key)
             IN r.ret = << >> /\ r.keys = keys \o <<key>>

\* two chords of a chain are pending
C2_Witness ==
    /\ keys = <<"g", "g">>
    /\ ret = << >>
    /\ walked = 2

\* the root lookup a chord gets when nothing is pending
FromRoot(key) ==
    IF key \notin DOMAIN map THEN [keys |-> << >>, ret |-> << >>]
    ELSE IF map[key].kind = "Action"
         THEN [keys |-> << >>, ret |-> <<map[key].actions>>]
    ELSE [keys |-> <<key>>, ret |-> << >>]

C3_Diverted ==
    \A key \in AllChords :
       key \notin DOMAIN Lookup(map, keys).map =>
          LET r == BindsApply(map, keys, key)
              st == PollSink(App)
          IN /\ r.ret = << >>
             /\ r.keys = << >>
             /\ HandleKeyEvent(st, r.ret) = st
             /\ \A k2 \in AllChords : BindsApply(map, r.keys, k2) = FromRoot(k2)

C3_ClearedByChord ==
    (keys # << >> /\ keys' # keys) =>
       \E key \in AllChords :
          /\ BindsApply(map, keys, key) = [keys |-> keys', ret |-> ret']
          /\ walked' = Len(keys) + 1
          /\ \/ Lookup(map, Append(keys, key)).kind = "Chain"
                 /\ keys' = Append(keys, key)
             \/ Lookup(map, Append(keys, key)).kind # "Chain"
                 /\ keys' = << >>

\* C3: a chord with no entry at the node the pending chords reach returns
\* None, dispatches nothing and empties the buffer, also when it is bound at
\* the root, and the next chord is looked up from the root; pending chords
\* change only when a chord is applied, never as time passes.
C3_UnboundClears == []C3_Diverted /\ [][C3_ClearedByChord]_vars

\* a chord has just been swallowed behind a pending chain chord
C3_Witness ==
    /\ walked = 2
    /\ ret = << >>
    /\ keys = << >>

\* ------------------------------------------------------------ the session
\* the samples of src that lie outside [a, b), in their order
Outside(src, a, b) ==
    LET per == 1000 \div (src.sample_rate * src.channels)
        idx == {i \in 1..Len(src.data) : i * per <= a \/ (i - 1) * per >= b}
    IN [j \in 1..Cardinality(idx) |->
          src.data[CHOOSE i \in idx : Cardinality({x \in idx : x < i}) = j - 1]]

Lo(sel) == IF sel.start <= sel.end THEN sel.start ELSE sel.end
Hi(sel) == IF sel.start <= sel.end THEN sel.end ELSE sel.start

\* C4: Select turns Normal into Select with both endpoints at the cursor,
\* Select into Normal, leaves Effect as it is, and changes nothing else.
C4_SelectToggles ==
    ApplyAction(App, "Select") =
       [App EXCEPT !.mode =
          CASE mode.kind = "Normal" ->
                  [kind |-> "Select",
                   selection |-> [start |-> cursor, end |-> cursor]]
            [] mode.kind = "Select" -> [kind |-> "Normal"]
            [] mode.kind = "Effect" -> mode]

\* Select has just opened a selection away from both ends of the buffer
C4_Witness ==
    /\ ret = <<(<<"Select">>)>>
    /\ mode.kind = "Select"
    /\ mode.selection = [start |-> cursor, end |-> cursor]
    /\ 0 < cursor /\ cursor < TotalDuration(source)

C7_AmplifyEntersEffect ==
    mode.kind = "Select" =>
       ApplyAction(App, "Amplify") =
          [App EXCEPT !.mode = [kind |-> "Effect",
                                selection |-> mode.selection,
                                amount |-> 10]]

\* Amplify has just taken over a selection whose anchor lies behind the
\* cursor end
C7_Witness ==
    /\ ret = <<(<<"Amplify">>)>>
    /\ mode.kind = "Effect"
    /\ mode.amount = 10
    /\ mode.selection.start > mode.selection.end

\* C8: in Normal mode Amplify and Cut change nothing: mode, cursor, window,
\* buffer, playing and exit flag stay, and no failure is raised.
C8_NoSelectionNoEffect ==
    mode.kind = "Normal" =>
       /\ ApplyAction(App, "Amplify") = App
       /\ ApplyAction(App, "Cut") = App

\* Amplify has just been dispatched in Normal mode, away from the start
C8_Witness ==
    /\ ret = <<(<<"Amplify">>)>>
    /\ mode.kind = "Normal"
    /\ cursor > 0

\* C9: no action ends in a hard failure.
C9_NoHardFailure == ~panicked

\* C10: the cursor stays within the buffer, and CursorLeft / CursorRight
\* move it by 10 ms or, where that would leave the buffer, to the boundary.
C10_CursorClamped ==
    /\ 0 <= cursor
    /\ cursor <= TotalDuration(source)
    /\ ApplyAction(App, "CursorLeft").cursor =
          IF cursor - 10 >= 0 THEN cursor - 10 ELSE 0
    /\ ApplyAction(App, "CursorRight").cursor =
          IF cursor + 10 <= TotalDuration(source) THEN cursor + 10
          ELSE TotalDuration(source)

\* CursorRight has just stopped at the end of the 5 ms that a Cut left of a
\* 15 ms buffer
C10_Witness ==
    /\ ret = <<(<<"CursorRight">>)>>
    /\ cursor = 5
    /\ source.data = <<3>>

\* C11: in the Select mode that Select entered at cursor a, whatever cursor
\* motions followed, one endpoint is still a and the other is the cursor, and
\* the normalized selection is (min(a, cursor), max(a, cursor)).
C11_AnchorFixed ==
    anchor # None =>
       LET a == anchor[1]
       IN /\ mode.kind = "Select"
          /\ \/ mode.selection.end = a /\ mode.selection.start = cursor
             \/ mode.selection.start = a /\ mode.selection.end = cursor
          /\ Normalize(mode.selection) =
                <<IF a <= cursor THEN a ELSE cursor,
                  IF a <= cursor THEN cursor ELSE a>>

\* the cursor has moved on from the anchor, or back past it
C11_Witness ==
    /\ anchor = <<5>>
    /\ cursor \in {0, 15}
    /\ ret \in {<<(<<"CursorLeft">>)>>, <<(<<"CursorRight">>)>>}

\* C12: SelectAll in Select mode whose normalized selection is the whole
\* buffer, whichever endpoint is the anchor, reverts to Normal; in any other
\* state it selects (0, total_duration) and moves the cursor to the end.
C12_SelectAllToggles ==
    LET total == TotalDuration(source)
        post == ApplyAction(App, "SelectAll")
    IN IF mode.kind = "Select" /\ Normalize(mode.selection) = <<0, total>>
       THEN post.mode = Normal
       ELSE /\ post.mode = Select([start |-> 0, end |-> total])
            /\ post.cursor = total

\* SelectAll dispatched twice with nothing in between
SelectAllTwice == ApplyAction(ApplyAction(App, "SelectAll"), "SelectAll")

\* C13 as stated: from any reachable state, SelectAll twice in a row leaves
\* Mode equal to Normal.
C13_TwiceIsNormal == SelectAllTwice.mode = Normal

\* C13: SelectAll twice in a row leaves Mode Normal, except from Select mode
\* with start = 0 and end >= total_duration, from where it ends in Select mode
\* covering (0, total_duration).
C13_TwiceTogglesBack ==
    LET total == TotalDuration(source)
    IN IF /\ mode.kind = "Select"
          /\ mode.selection.start = 0
          /\ mode.selection.end >= total
       THEN SelectAllTwice.mode = Select([start |-> 0, end |-> total])
       ELSE SelectAllTwice.mode = Normal

\* the second of two SelectAll keys has just reverted the mode
C13_Witness ==
    /\ ret = Some(<<"SelectAll">>)
    /\ mode = Normal
    /\ cursor = TotalDuration(source)
    /\ Len(source.data) = MaxSamples

\* the actions that call move_cursor_to in the current state
Moves ==
    {"CursorLeft", "CursorRight", "CursorStart", "CursorEnd"}
    \cup (IF ApplyAction(App, "SelectAll").mode.kind = "Select"
          THEN {"SelectAll"} ELSE {})
    \cup (IF mode.kind = "Select" THEN {"Cut"} ELSE {})

\* how far position c lies outside the current window, signed
OutOfWindow(c) ==
    IF c < window_start THEN c - window_start
    ELSE IF c > window_end THEN c - window_end
    ELSE 0

\* C14: after every cursor move the cursor is inside the window, the window
\* has the length it had before, and it was shifted by exactly the amount by
\* which the new cursor lay outside it.
C14_WindowSlides ==
    \A a \in Moves :
       LET post == ApplyAction(App, a)
       IN /\ post.window_start <= post.cursor
          /\ post.cursor <= post.window_end
          /\ post.window_end - post.window_start = window_end - window_start
          /\ post.window_start = window_start + OutOfWindow(post.cursor)
          /\ post.window_end = window_end + OutOfWindow(post.cursor)

\* a zoomed-in window has been pushed right by the cursor
C14_Witness ==
    /\ ret = Some(<<"CursorRight">>)
    /\ window_start > 0
    /\ cursor = window_end
    /\ "Cut" \in Moves

\* C15: in every reachable state the window is a non-empty interval, and
\* ZoomIn from it, wherever the window has been panned to, leaves a window of
\* at least 1 ms.
C15_WindowNonEmpty ==
    /\ window_start < window_end
    /\ Running =>
          LET post == ApplyAction(App, "ZoomIn")
          IN /\ ~post.panicked
             /\ post.window_end - post.window_start >= 1

\* C16: for every reachable window on which ZoomIn completes, ZoomIn followed
\* at once by ZoomOut restores window_start and window_end.
C16_ZoomRoundTrip ==
    LET zin == ApplyAction(App, "ZoomIn")
        post == ApplyAction(zin, "ZoomOut")
    IN Running /\ ~zin.panicked =>
          /\ post.window_start = window_start
          /\ post.window_end = window_end

\* every action but Cut leaves the stored buffer as it is
C17_OthersKeepBuffer ==
    \A a \in Actions \ {"Cut"} : ApplyAction(App, a).source = source

\* a step that changes the stored buffer has dispatched Cut
C17_ChangedByCut ==
    source' # source =>
       /\ ret' # None
       /\ \E i \in 1..Len(ret'[1]) : ret'[1][i] = "Cut"

\* C17: the stored buffer (samples, channel count, sample rate, and so its
\* total duration) is changed by the Cut action only; no other action, and no
\* gain chosen in Effect mode, alters it.
C17_OnlyCutChangesBuffer == []C17_OthersKeepBuffer /\ [][C17_ChangedByCut]_vars

\* a gain other than 1.0 has been chosen over the whole, untouched buffer
C17_Witness ==
    /\ ret = Some(<<"EffectRight">>)
    /\ mode.kind = "Effect"
    /\ mode.amount # 10
    /\ Normalize(mode.selection) = <<0, TotalDuration(source)>>
    /\ source.data = <<1, 2, 3>>

\* one key press on session st with pending chords ks, as KeyPress does it
TypeKey(m, r, key) ==
    LET b == BindsApply(m, r.keys, key)
    IN [app |-> HandleKeyEvent(PollSink(r.app), b.ret), keys |-> b.keys]

\* the keys ks[i..] typed in order
RECURSIVE TypeAll(_, _, _, _)
TypeAll(m, r, ks, i) ==
    IF i > Len(ks) THEN r ELSE TypeAll(m, TypeKey(m, r, ks[i]), ks, i + 1)

\* the session after typing ks in the current state
Typed(ks) == TypeAll(map, [app |-> App, keys |-> keys], ks, 1).app

\* the start of the example: 5000 ms buffer, cursor 0, nothing selected
ScenarioStart ==
    /\ Running
    /\ source = ScenarioBuffer
    /\ cursor = 0
    /\ mode = Normal
    /\ keys = << >>

\* the steps of the example up to the selection of 0..30 ms
ScenarioSelects ==
    /\ Typed(<<"l">>).cursor = 10
    /\ Typed(<<"l", "h">>).cursor = 0
    /\ Typed(<<"l", "h", "v">>).mode = Select([start |-> 0, end |-> 0])
    /\ Typed(<<"l", "h", "v", "l", "l", "l">>).mode =
          Select([start |-> 30, end |-> 0])

Magnitude(n) == CHOOSE s \in {1, 10, 100, 1000} : s <= n /\ n < 10 * s

\* C19 as stated: with L the window length, ZoomIn decreases and ZoomOut
\* increases window_end by 10^floor(log10(L)) ms and changes nothing else.
C19_StepFromLength ==
    LET L == window_end - window_start
    IN Running /\ L >= 2 =>
          /\ ApplyAction(App, "ZoomIn") =
                [App EXCEPT !.window_end = window_end - Magnitude(L)]
          /\ ApplyAction(App, "ZoomOut") =
                [App EXCEPT !.window_end = window_end + Magnitude(L)]

\* C19: with L the window length, ZoomIn decreases window_end by
\* 10^floor(log10(L - 1)) ms when L >= 2 and panics when L = 1; ZoomOut
\* increases window_end by 10^floor(log10(L)) ms; neither changes
\* window_start, cursor, Mode or buffer.
C19_StepFromLengthLessOne ==
    LET L == window_end - window_start
    IN Running =>
          /\ L >= 1
          /\ ApplyAction(App, "ZoomIn") =
                IF L = 1 THEN [App EXCEPT !.panicked = TRUE]
                ELSE [App EXCEPT !.window_end = window_end - Magnitude(L - 1)]
          /\ ApplyAction(App, "ZoomOut") =
                [App EXCEPT !.window_end = window_end + Magnitude(L)]

\* ZoomIn has taken 1 ms, not 10 ms, off a panned 10 ms window
C19_Witness ==
    /\ ret = Some(<<"ZoomIn">>)
    /\ window_start = 5
    /\ window_end = 14

\* C20: in Select or Effect mode both selection endpoints lie in
\* [0, total_duration] of the current buffer, also after a Cut shortened it.
C20_SelectionInBuffer ==
    mode.kind \in {"Select", "Effect"} =>
       /\ 0 <= mode.selection.start
       /\ mode.selection.start <= TotalDuration(source)
       /\ 0 <= mode.selection.end
       /\ mode.selection.end <= TotalDuration(source)

\* a selection reaching the end of a buffer that Cut has shortened to 5 ms
C20_Witness ==
    /\ mode.kind = "Effect"
    /\ source.data = <<3>>
    /\ mode.selection = [start |-> 0, end |-> 5]

\* Sink::empty
SinkIsEmpty == sink.pos >= sink.len

\* Play hands over the buffer from the cursor on and sets playing, or stops
\* the sink and clears playing; nothing else changes
C21_PlayFlips ==
    ApplyAction(App, "Play") =
       IF playing
       THEN [App EXCEPT !.playing = FALSE, !.sink = SinkEmpty]
       ELSE [App EXCEPT !.playing = TRUE,
                        !.sink = [len |-> TotalDuration(
                                     [source EXCEPT !.data =
                                         SkipDuration(source, cursor)]),
                                  pos |-> 0]]

\* an iteration without key input that finds the sink empty clears playing
C21_TimeoutClears ==
    PollTimeout /\ SinkIsEmpty => ~playing'

\* C21: each Play flips the playing flag, starting playback from the cursor
\* or stopping it; an iteration without key input that finds the collaborator
\* empty clears the flag; and playback that has ended naturally is eventually
\* reported as not playing, unless Play starts it again.
C21_PlaybackEnds ==
    /\ []C21_PlayFlips
    /\ [][C21_TimeoutClears]_vars
    /\ (playing /\ SinkIsEmpty) ~> (~playing \/ ~SinkIsEmpty)

\* Play was the last key, the queued 15 ms have been played, and the loop
\* has cleared the flag
C21_Witness ==
    /\ ret = Some(<<"Play">>)
    /\ ~playing
    /\ sink = [len |-> 15, pos |-> 15]
    /\ playhead = 15

\* Quit sets the exit flag and nothing else, Save changes nothing, and no
\* action clears the flag
C22_QuitSetsExit ==
    /\ ApplyAction(App, "Quit") = [App EXCEPT !.exit = TRUE]
    /\ ApplyAction(App, "Save") = App
    /\ \A a \in Actions \ {"Quit"} : ApplyAction(App, a).exit = exit

\* the exit flag is set exactly when the last batch dispatched held Quit
C22_ExitIsQuit ==
    exit <=> /\ ret # None
             /\ \E i \in 1..Len(ret[1]) : ret[1][i] = "Quit"

\* once the flag is set the loop takes no further step: no key is read, no
\* poll is made
C22_NoStepAfterExit == exit => UNCHANGED vars

\* C22: Quit sets the exit flag and no action clears it; once a batch holding
\* Quit has been dispatched the loop ends without reading another event;
\* Save changes no session state.
C22_QuitEndsLoop ==
    /\ []C22_QuitSetsExit
    /\ []C22_ExitIsQuit
    /\ [][C22_NoStepAfterExit]_vars

\* Quit during playback: the flag is set although sound is still queued
C22_Witness ==
    /\ exit
    /\ ret = Some(<<"Quit">>)
    /\ playing
    /\ sink.pos < sink.len

\* gains, in tenths: below zero, zero, unity and around 2.0
Gains == {0 - 1, 0, 10, 20, 21}

\* the actions that C23 lists as leaving an Effect as it is
KeepEffect == {"CursorLeft", "CursorRight", "CursorStart", "CursorEnd",
               "ZoomIn", "ZoomOut", "Select", "Amplify", "Play"}

\* C23: in Effect mode EffectLeft and EffectRight change only the gain, by
\* -0.1 and +0.1 with no clamp at either end, and cursor motions, zooms,
\* Select, Amplify and Play leave selection and gain as they are; outside
\* Effect mode EffectLeft and EffectRight change nothing.
C23_EffectFixed ==
    IF mode.kind = "Effect"
    THEN \A g \in Gains :
            LET st == [App EXCEPT !.mode.amount = g]
            IN /\ ApplyAction(st, "EffectLeft") =
                     [st EXCEPT !.mode.amount = g - 1]
               /\ ApplyAction(st, "EffectRight") =
                     [st EXCEPT !.mode.amount = g + 1]
               /\ \A a \in KeepEffect : ApplyAction(st, a).mode = st.mode
    ELSE /\ ApplyAction(App, "EffectLeft") = App
         /\ ApplyAction(App, "EffectRight") = App

\* the gain has been lowered after the cursor left both selection endpoints
C23_Witness ==
    /\ ret = Some(<<"EffectLeft">>)
    /\ mode.kind = "Effect"
    /\ mode.amount = 9
    /\ cursor \notin {mode.selection.start, mode.selection.end}

\* C24: after SelectAll has selected the whole buffer, a cursor motion keeps
\* offset 0 as the anchor and moves the other endpoint with the cursor, so the
\* normalized selection becomes (0, cursor).
C24_AnchorAtZero ==
    /\ ret = Some(<<"SelectAll">>)
    /\ mode = Select([start |-> 0, end |-> TotalDuration(source)])
    /\ cursor = TotalDuration(source)
    => \A a \in {"CursorLeft", "CursorRight", "CursorStart", "CursorEnd"} :
          LET post == ApplyAction(App, a)
          IN /\ post.mode.kind = "Select"
             /\ Normalize(post.mode.selection) = <<0, post.cursor>>

\* C25: while playback is active, the playhead computed by a loop iteration
\* is the position at which that playback was started plus the offset the
\* sink reports, whatever cursor motions or cuts came in between.
C25_PlayheadFromStart ==
    playing /\ started # None =>
       PollSink(App).playhead = started[1] + sink.pos

\* <&App as Widget>::render: the bounds of the selected part it reads in
\* Select and Effect mode, before it subtracts them
RenderSelected(st) ==
    LET sel == Normalize(st.mode.selection)
    IN [start |-> Max(sel[1], st.window_start),
        end |-> Min(sel[2], st.window_end)]

\* C26: in Select or Effect mode the part of the normalized selection that
\* render reads is a well-formed range, so the duration end - start it
\* computes is never negative.
C26_RenderRange ==
    mode.kind \in {"Select", "Effect"} =>
       RenderSelected(App).start <= RenderSelected(App).end

====
